---- MODULE Spec2Model ----
(***************************************************************************)
(* A model of the simulation core of darkhall: Maze (generation and cell   *)
(* queries), Player (movement and footprints), Monster (pursuit) and       *)
(* GameSimulation (the orchestrator with its StateMachine).                *)
(*                                                                         *)
(* Vectors are records [x, y].  Grid addresses are integers.  Direction    *)
(* vectors that the code normalizes are kept in thousandths (Scale), so    *)
(* that normalize() is not the identity.  Times are milliseconds.          *)
(***************************************************************************)
EXTENDS Integers, Sequences, FiniteSets, TLC

VARIABLES
  pc,            \* where the construction is: "carve", "connect", "strategic",
                 \* "place", "spawn"; "run" once the GameSimulation exists
  maze,          \* Maze: width, height, grid, startPosition, prizePosition
  gen,           \* locals of generateSimpleMaze and its loops
  player,        \* Player: position, facing, flashlightDirection, footprints
  monster,       \* Monster: position, path, timers, lastPlayerPosition
  currentState,  \* StateMachine.currentState
  godMode,       \* GameSimulation.godMode
  now,           \* the reading of performance.now()
  last           \* the last operation called on the simulation and its result

vars == <<pc, maze, gen, player, monster, currentState, godMode, now, last>>

----------------------------------------------------------------------------
(* Bounds of the model *)

\* the side of the square maze the simulation is built on
SimDim == 5
\* Maze construction alone is explored for widths and heights 5..MaxDim
MaxDim == 7
\* the greatest number of entries the footprint trail is let to hold
MaxTrail == 3
\* the smallest width and height the Maze constructor is called with
MinDim == 4
\* the width and height of the maze the light is examined on, and the
\* greatest number of entries its footprint trail is let to hold
LightWidth == 7
LightHeight == 5
MaxWalk == 7
\* the clock, performance.now(), advances by ClockStep ms at a time, up to
\* MaxNow ms
ClockStep == 7500
MaxNow == 15000
\* the width of the wider of the two mazes the pursuer's placement is
\* examined on
SpawnWidth == 11
\* the width of the maze the pursuer runs its long searches in, the greatest
\* number of trail entries the player leaves there, and the number of
\* walkable cells below which no cell is closed after construction
WideWidth == 13
PursuitTrail == 4
FloorKept == 7

----------------------------------------------------------------------------
(* core/Vector2.ts *)

Vector2(x, y) == [x |-> x, y |-> y]

add(a, b) == Vector2(a.x + b.x, a.y + b.y)

subtract(a, b) == Vector2(a.x - b.x, a.y - b.y)

\* magnitude() squared: the code takes Math.sqrt of this integer; every
\* comparison of magnitudes in the model is made on the squares
magnitude2(a) == a.x * a.x + a.y * a.y

distanceTo2(a, b) == magnitude2(subtract(a, b))

equals(a, b) == a.x = b.x /\ a.y = b.y

\* floor of the square root of a natural number, by bisection of lo..hi
RECURSIVE Bisect(_, _, _)
Bisect(n, lo, hi) ==
  IF lo >= hi THEN lo
  ELSE LET mid == (lo + hi + 1) \div 2
       IN  IF mid * mid <= n THEN Bisect(n, mid, hi) ELSE Bisect(n, lo, mid - 1)

\* 46340 is the greatest integer whose square fits 32 bits
ISqrt(n) == Bisect(n, 0, IF n < 46340 THEN n ELSE 46340)

\* the unit of the fixed-point values: thousandths
Scale == 10 * 10 * 10

Sign(n) == IF n > 0 THEN 1 ELSE IF n < 0 THEN -1 ELSE 0

\* normalize(): the unit vector, in thousandths, (0,0) for the zero vector
normalize(a) ==
  IF magnitude2(a) = 0 THEN Vector2(0, 0)
  ELSE Vector2(Sign(a.x) * ISqrt((Scale * Scale * a.x * a.x) \div magnitude2(a)),
               Sign(a.y) * ISqrt((Scale * Scale * a.y * a.y) \div magnitude2(a)))

----------------------------------------------------------------------------
(* Math, on fixed-point values: angles in thousandths of a radian *)

\* Math.PI, in thousandths of a radian
PI == 3142

\* the unit of the intensities: millionths
Micro == Scale * Scale

Max(a, b) == IF a >= b THEN a ELSE b

Min(a, b) == IF a <= b THEN a ELSE b

\* Math.cos on 0..PI/2 by its power series up to the 10th power; x is in
\* thousandths of a radian and the value in millionths
CosSeries(x) ==
  LET x2 == x * x
      t1 == x2 \div 2
      t2 == ((t1 \div 100) * (x2 \div 100)) \div (12 * 100)
      t3 == ((t2 \div 100) * (x2 \div 100)) \div (30 * 100)
      t4 == ((t3 \div 100) * (x2 \div 100)) \div (56 * 100)
      t5 == ((t4 \div 100) * (x2 \div 100)) \div (90 * 100)
  IN  Micro - t1 + t2 - t3 + t4 - t5

\* Math.cos on 0..PI, in thousandths: cos(x) = -cos(PI - x) past PI/2
Cos(x) ==
  LET c == IF 2 * x <= PI THEN CosSeries(x) ELSE 0 - CosSeries(PI - x)
  IN  (c + Scale \div 2) \div Scale

\* the least angle of lo..hi whose cosine is at most d
RECURSIVE AngleBisect(_, _, _)
AngleBisect(d, lo, hi) ==
  IF lo >= hi THEN lo
  ELSE LET mid == (lo + hi) \div 2
       IN  IF Cos(mid) <= d THEN AngleBisect(d, lo, mid) ELSE AngleBisect(d, mid + 1, hi)

\* Math.acos of every cosine of -1..1 given in thousandths, in thousandths of
\* a radian
ArcCosTable ==
  [d \in (0 - Scale)..Scale |->
     IF d = Scale THEN 0 ELSE IF d = 0 - Scale THEN PI ELSE AngleBisect(d, 0, PI)]

ArcCos(d) == ArcCosTable[d]

\* Math.ceil(Math.sqrt(n)) of a natural number
CeilSqrt(n) == IF ISqrt(n) * ISqrt(n) = n THEN ISqrt(n) ELSE ISqrt(n) + 1

\* a.magnitude() of an integer vector, in thousandths
magnitude(a) == ISqrt(magnitude2(a) * Micro)

----------------------------------------------------------------------------
(* simulation/Maze.ts *)

WALL  == "wall"
FLOOR == "floor"
START == "start"
PRIZE == "prize"

isValidPosition(m, p) ==
  p.x >= 0 /\ p.x < m.width /\ p.y >= 0 /\ p.y < m.height

\* getCell(p)?.type, "null" for a position outside the grid
getCell(m, p) == IF isValidPosition(m, p) THEN m.grid[p] ELSE "null"

\* the grid after setCellType(p, type): nothing changes outside the grid
setCellType(m, p, type) ==
  IF isValidPosition(m, p) THEN [m EXCEPT !.grid[p] = type] ELSE m

\* isWalkable with a slip: the cell's type is not looked at
isWalkableAnyCell(m, p) == getCell(m, p) # "null"

isWalkable(m, p) == getCell(m, p) # "null" /\ getCell(m, p) # WALL

\* Up, Right, Down, Left
directions == <<Vector2(0, -1), Vector2(1, 0), Vector2(0, 1), Vector2(-1, 0)>>

\* the 4-neighbours inside the grid, in the order of `directions`
getAdjacentPositions(m, p) ==
  SelectSeq([k \in 1..4 |-> add(p, directions[k])],
            LAMBDA q : isValidPosition(m, q))

SeqToSet(s) == {s[k] : k \in 1..Len(s)}

\* the positions of getAllCells(), and the index of each in that array
AllPositions(m) == {Vector2(x, y) : x \in 0..(m.width - 1), y \in 0..(m.height - 1)}

CellIndex(m, p) == p.y * m.width + p.x

\* the grid of the constructor's first loop: every cell a wall
AllWalls(w, h) ==
  [p \in {Vector2(x, y) : x \in 0..(w - 1), y \in 0..(h - 1)} |-> WALL]

\* getUnvisitedNeighbors with a slip: the neighbour may lie on the border
getUnvisitedNeighborsToBorder(m, p, seen) ==
  {n \in {add(p, Vector2(2 * directions[k].x, 2 * directions[k].y)) : k \in 1..4} :
     /\ isValidPosition(m, n)
     /\ n \notin seen}

\* neighbours two cells away, strictly inside the border, not yet visited
getUnvisitedNeighbors(m, p, seen) ==
  {n \in {add(p, Vector2(2 * directions[k].x, 2 * directions[k].y)) : k \in 1..4} :
     /\ isValidPosition(m, n)
     /\ n.x > 0 /\ n.x < m.width - 1
     /\ n.y > 0 /\ n.y < m.height - 1
     /\ n \notin seen}

\* the number of 4-neighbours whose type is exactly FLOOR
adjacentFloors(m, p) ==
  Cardinality({k \in 1..Len(getAdjacentPositions(m, p)) :
                 getCell(m, getAdjacentPositions(m, p)[k]) = FLOOR})

\* shouldCreateConnection with a slip: the lower bound on the floors is gone
shouldCreateConnectionAnywhere(m, p) == adjacentFloors(m, p) <= 3

shouldCreateConnection(m, p) ==
  adjacentFloors(m, p) >= 2 /\ adjacentFloors(m, p) <= 3

connectionCount(m) == (m.width * m.height) \div 25

attempts(m) == (m.width * m.height) \div 40

\* findGoodPrizePosition with a slip: the comparison is turned round and the
\* nearest floor cell is returned
findGoodPrizePositionNearest(m) ==
  LET floorCells == {p \in AllPositions(m) :
                       m.grid[p] = FLOOR /\ ~equals(p, m.startPosition)}
      d(p) == distanceTo2(m.startPosition, p)
  IN  IF floorCells = {} THEN Vector2(m.width - 2, m.height - 2)
      ELSE CHOOSE c \in floorCells :
             \A o \in floorCells :
               \/ d(o) > d(c)
               \/ d(o) = d(c) /\ CellIndex(m, c) <= CellIndex(m, o)

\* the cell findGoodPrizePosition returns: among the FLOOR cells other than
\* start, the first of getAllCells() at the greatest distance from start
findGoodPrizePosition(m) ==
  LET floorCells == {p \in AllPositions(m) :
                       m.grid[p] = FLOOR /\ ~equals(p, m.startPosition)}
      d(p) == distanceTo2(m.startPosition, p)
  IN  IF floorCells = {} THEN Vector2(m.width - 2, m.height - 2)
      ELSE CHOOSE c \in floorCells :
             \A o \in floorCells :
               \/ d(o) < d(c)
               \/ d(o) = d(c) /\ CellIndex(m, c) <= CellIndex(m, o)

\* the cells a breadth-first search over walkable 4-neighbours visits from `from`
RECURSIVE Flood(_, _, _)
Flood(m, seen, frontier) ==
  IF frontier = {} THEN seen
  ELSE LET nxt == {q \in UNION {SeqToSet(getAdjacentPositions(m, p)) : p \in frontier} :
                     q \notin seen /\ m.grid[q] # WALL}
       IN  Flood(m, seen \cup nxt, nxt)

ReachableFrom(m, from) == Flood(m, {from}, {from})

hasPathFromStartToPrize(m) == m.prizePosition \in ReachableFrom(m, m.startPosition)

----------------------------------------------------------------------------
(* Maze constructor, one loop iteration per step *)

NotConstructed == [constructed |-> FALSE]

\* the locals of generateSimpleMaze as it enters its while loop
GenStart(regen) ==
  [stack |-> <<Vector2(1, 1)>>, visited |-> {Vector2(1, 1)}, i |-> 0,
   regenerating |-> regen]

\* new Maze(w, h) up to the first test of the carving loop
MazeInit(w, h) ==
  /\ pc = "carve"
  /\ maze = setCellType([width |-> w, height |-> h, grid |-> AllWalls(w, h),
                         startPosition |-> NotConstructed,
                         prizePosition |-> NotConstructed],
                        Vector2(1, 1), FLOOR)
  /\ gen = GenStart(FALSE)
  /\ player = NotConstructed
  /\ monster = NotConstructed
  /\ currentState = "none"
  /\ godMode = FALSE
  /\ now = 0
  /\ last = [op |-> "none", ret |-> "void"]

\* where generation continues once the carving loop has ended
AfterCarve(m) ==
  IF connectionCount(m) > 0 THEN "connect"
  ELSE IF attempts(m) > 0 THEN "strategic" ELSE "place"

AfterConnect(m) == IF attempts(m) > 0 THEN "strategic" ELSE "place"

\* CarveStep with a slip: the wall between current and next is left standing
CarveStepKeepsWall ==
  /\ pc = "carve"
  /\ LET current == gen.stack[Len(gen.stack)]
         neighbors == getUnvisitedNeighbors(maze, current, gen.visited)
     IN  IF neighbors # {}
         THEN \E next \in neighbors :
                /\ maze' = setCellType(maze, next, FLOOR)
                /\ gen' = [gen EXCEPT !.stack = Append(@, next),
                                      !.visited = @ \cup {next}]
                /\ pc' = pc
         ELSE /\ gen' = [gen EXCEPT !.stack = SubSeq(@, 1, Len(@) - 1)]
              /\ maze' = maze
              /\ pc' = IF Len(gen.stack) = 1 THEN AfterCarve(maze) ELSE pc
  /\ UNCHANGED <<player, monster, currentState, godMode, now, last>>

\* one iteration of the while loop of generateSimpleMaze
CarveStep ==
  /\ pc = "carve"
  /\ LET current == gen.stack[Len(gen.stack)]
         neighbors == getUnvisitedNeighbors(maze, current, gen.visited)
     IN  IF neighbors # {}
         THEN \E next \in neighbors :
                LET wallBetween == Vector2((current.x + next.x) \div 2,
                                           (current.y + next.y) \div 2)
                IN  /\ maze' = setCellType(setCellType(maze, next, FLOOR),
                                           wallBetween, FLOOR)
                    /\ gen' = [gen EXCEPT !.stack = Append(@, next),
                                          !.visited = @ \cup {next}]
                    /\ pc' = pc
         ELSE /\ gen' = [gen EXCEPT !.stack = SubSeq(@, 1, Len(@) - 1)]
              /\ maze' = maze
              /\ pc' = IF Len(gen.stack) = 1 THEN AfterCarve(maze) ELSE pc
  /\ UNCHANGED <<player, monster, currentState, godMode, now, last>>

\* one iteration of the loop of addRandomConnections
AddRandomConnection ==
  /\ pc = "connect"
  /\ \E x \in 1..(maze.width - 2), y \in 1..(maze.height - 2) :
       maze' = IF shouldCreateConnection(maze, Vector2(x, y))
               THEN setCellType(maze, Vector2(x, y), FLOOR)
               ELSE maze
  /\ gen' = [gen EXCEPT !.i = IF @ + 1 < connectionCount(maze) THEN @ + 1 ELSE 0]
  /\ pc' = IF gen.i + 1 < connectionCount(maze) THEN pc ELSE AfterConnect(maze)
  /\ UNCHANGED <<player, monster, currentState, godMode, now, last>>

\* one iteration of the loop of addStrategicConnections
AddStrategicConnection ==
  /\ pc = "strategic"
  /\ \E x \in 1..(maze.width - 2), y \in 1..(maze.height - 2) :
       maze' = IF /\ getCell(maze, Vector2(x, y)) = WALL
                  /\ adjacentFloors(maze, Vector2(x, y)) >= 2
               THEN setCellType(maze, Vector2(x, y), FLOOR)
               ELSE maze
  /\ gen' = [gen EXCEPT !.i = IF @ + 1 < attempts(maze) THEN @ + 1 ELSE 0]
  /\ pc' = IF gen.i + 1 < attempts(maze) THEN pc ELSE "place"
  /\ UNCHANGED <<player, monster, currentState, godMode, now, last>>

\* the constructor after generateSimpleMaze has returned: the first time it
\* places start and prize and verifies the path; if the verification fails
\* it starts generateSimpleMaze again, and when that returns it reselects
\* the prize
PlaceStartAndPrize ==
  /\ pc = "place"
  /\ IF ~gen.regenerating
     THEN LET m1 == [maze EXCEPT !.startPosition = Vector2(1, 1)]
              m2 == [m1 EXCEPT !.prizePosition = findGoodPrizePosition(m1)]
              m3 == setCellType(m2, m2.startPosition, START)
              m4 == setCellType(m3, m3.prizePosition, PRIZE)
          IN  IF hasPathFromStartToPrize(m4)
              THEN /\ maze' = m4
                   /\ gen' = gen
                   /\ pc' = "spawn"
              ELSE /\ maze' = setCellType(m4, Vector2(1, 1), FLOOR)
                   /\ gen' = GenStart(TRUE)
                   /\ pc' = "carve"
     ELSE LET m1 == [maze EXCEPT !.prizePosition = findGoodPrizePosition(maze)]
          IN  /\ maze' = setCellType(m1, m1.prizePosition, PRIZE)
              /\ gen' = gen
              /\ pc' = "spawn"
  /\ UNCHANGED <<player, monster, currentState, godMode, now, last>>

MazeNext ==
  \/ CarveStep
  \/ AddRandomConnection
  \/ AddStrategicConnection
  \/ PlaceStartAndPrize

\* new Maze(w, h) for every width and height of 5..MaxDim
InitMaze == \E w \in 5..MaxDim, h \in 5..MaxDim : MazeInit(w, h)

SpecMaze == InitMaze /\ [][MazeNext]_vars

\* the while loop of generateSimpleMaze runs without a pause: an iteration
\* that can be taken is taken
SpecMazeFair == InitMaze /\ [][MazeNext]_vars /\ WF_vars(CarveStep)

\* new Maze(w, h) for every width and height of MinDim..MaxDim: on a grid
\* smaller than 5 x 5 the carving finds no neighbour two cells away
InitAnyMaze == \E w \in MinDim..MaxDim, h \in MinDim..MaxDim : MazeInit(w, h)

SpecAnyMaze == InitAnyMaze /\ [][MazeNext]_vars

----------------------------------------------------------------------------
(* simulation/Player.ts *)

FOOTPRINT_FADE_TIME == 15000
\* 0.12, in thousandths
FOOTPRINT_MAX_INTENSITY == 120

\* a direction given in grid units, in thousandths
Thousandths(v) == Vector2(Scale * v.x, Scale * v.y)

\* footprints.set(key, {position, timestamp: now, intensity: MAX}): the map is
\* a function from the positions that have an entry
addFootprint(fp, p, t) ==
  [k \in DOMAIN fp \cup {p} |->
     IF k = p
     THEN [position |-> p, timestamp |-> t, intensity |-> FOOTPRINT_MAX_INTENSITY]
     ELSE fp[k]]

NoFootprints == [k \in {} |-> 0]

\* new Player(startPosition) at clock reading t
NewPlayer(startPos, t) ==
  [position |-> startPos,
   facing |-> Thousandths(Vector2(0, -1)),
   flashlightDirection |-> Thousandths(Vector2(0, -1)),
   footprints |-> addFootprint(NoFootprints, startPos, t)]

\* move with a slip: facing takes delta as it is
moveWithoutNormalize(pl, delta, t) ==
  [pl EXCEPT !.position = add(pl.position, delta),
             !.facing = IF magnitude2(delta) > 0 THEN Thousandths(delta) ELSE @,
             !.footprints = addFootprint(@, add(pl.position, delta), t)]

\* Player.move(delta) at clock reading t
move(pl, delta, t) ==
  [pl EXCEPT !.position = add(pl.position, delta),
             !.facing = IF magnitude2(delta) > 0 THEN normalize(delta) ELSE @,
             !.footprints = addFootprint(@, add(pl.position, delta), t)]

\* fadedIntensity with a slip: the cosine is not lifted into 0..1
fadedIntensityBareCosine(age) ==
  (FOOTPRINT_MAX_INTENSITY * Cos((PI * age) \div FOOTPRINT_FADE_TIME)) \div Scale

\* the intensity updateFootprints stores in an entry of the given age, in
\* thousandths: FOOTPRINT_MAX_INTENSITY * (cos(fadeProgress * PI) + 1) / 2
fadedIntensity(age) ==
  LET fadeMultiplier == (Cos((PI * age) \div FOOTPRINT_FADE_TIME) + Scale) \div 2
  IN  (FOOTPRINT_MAX_INTENSITY * fadeMultiplier) \div Scale

\* Player.updateFootprints(deltaTime) at clock reading t: deltaTime is not read
updateFootprints(pl, t) ==
  LET fp == pl.footprints
      kept == {k \in DOMAIN fp : ~(t - fp[k].timestamp >= FOOTPRINT_FADE_TIME)}
  IN  [pl EXCEPT !.footprints =
         [k \in kept |->
            [position |-> fp[k].position,
             timestamp |-> fp[k].timestamp,
             intensity |-> fadedIntensity(t - fp[k].timestamp)]]]

setPosition(pl, p) == [pl EXCEPT !.position = p]

setFlashlightDirection(pl, d) == [pl EXCEPT !.flashlightDirection = normalize(d)]

\* Math.sin for an angle of -PI/2..PI/2, in thousandths
Sin(x) == Sign(x) * Cos(PI \div 2 - Sign(x) * x)

\* Player.rotateFlashlight(angle) for an angle of -PI/2..PI/2: the rotated
\* vector, each component rounded to the nearest thousandth; its length is 1
\* but for the rounding, and the normalisation that follows is not applied
rotateFlashlight(pl, angle) ==
  LET cos == Cos(Sign(angle) * angle)
      sin == Sin(angle)
      d == pl.flashlightDirection
      newX == (d.x * cos - d.y * sin + Scale \div 2) \div Scale
      newY == (d.x * sin + d.y * cos + Scale \div 2) \div Scale
  IN  [pl EXCEPT !.flashlightDirection = Vector2(newX, newY)]

\* Player.clearFootprints() at clock reading t
clearFootprints(pl, t) ==
  [pl EXCEPT !.footprints = addFootprint(NoFootprints, pl.position, t)]

----------------------------------------------------------------------------
(* simulation/Player.ts: light.  Distances are in thousandths of a cell,   *)
(* angles in thousandths of a radian, intensities in millionths.           *)

\* Player.flashlightRange
flashlightRange == 4

\* Player.flashlightAngle: Math.PI / 3
flashlightAngle == PI \div 3

\* the angle between the flashlight and the direction to `position`:
\* Math.acos of the clamped dot product of the two unit vectors
angleTo(pl, position) ==
  LET directionToPosition == normalize(subtract(position, pl.position))
      dotProduct == (pl.flashlightDirection.x * directionToPosition.x
                     + pl.flashlightDirection.y * directionToPosition.y
                     + Scale \div 2) \div Scale
  IN  ArcCos(Max(0 - Scale, Min(Scale, dotProduct)))

\* hasLineOfSight with a slip: walls do not stop the light
hasLineOfSightThroughWalls(m, from, to) == TRUE

\* Player.hasLineOfSight: the cells under the sampled points of the segment
\* from -> to, the end point included, are all walkable
hasLineOfSight(m, from, to) ==
  LET dx == to.x - from.x
      dy == to.y - from.y
      steps == CeilSqrt(4 * (dx * dx + dy * dy))
  IN  \A i \in 1..steps :
        isWalkable(m, Vector2(from.x + (dx * i) \div steps,
                              from.y + (dy * i) \div steps))

\* Player.isPositionIlluminated
isPositionIlluminated(pl, m, position) ==
  LET toPosition == subtract(position, pl.position)
  IN  /\ ~(magnitude2(toPosition) > flashlightRange * flashlightRange
           \/ magnitude2(toPosition) = 0)
      /\ ~(angleTo(pl, position) > flashlightAngle \div 2)
      /\ hasLineOfSight(m, pl.position, position)

\* getFlashlightIntensity with a slip: the light grows with the distance
getFlashlightIntensityGrowing(pl, m, position) ==
  IF ~isPositionIlluminated(pl, m, position) THEN 0
  ELSE LET distance == magnitude(subtract(position, pl.position))
           distanceIntensity == Max(0, Scale + distance \div flashlightRange)
           maxAngle == flashlightAngle \div 2
           angleIntensity == Max(0, Scale - (angleTo(pl, position) * Scale) \div maxAngle)
       IN  distanceIntensity * angleIntensity

\* Player.getFlashlightIntensity
getFlashlightIntensity(pl, m, position) ==
  IF ~isPositionIlluminated(pl, m, position) THEN 0
  ELSE LET distance == magnitude(subtract(position, pl.position))
           distanceIntensity == Max(0, Scale - distance \div flashlightRange)
           angle == angleTo(pl, position)
           maxAngle == flashlightAngle \div 2
           angleIntensity == Max(0, Scale - (angle * Scale) \div maxAngle)
       IN  distanceIntensity * angleIntensity

\* Player.getAmbientLightIntensity: ambientRange is 1.5 and maxAmbientIntensity
\* 0.25; distance > 1.5 is decided on the squares
getAmbientLightIntensity(pl, m, position) ==
  LET distance == magnitude(subtract(position, pl.position))
      falloff == Scale - (2 * distance) \div 3
  IN  IF 4 * distanceTo2(pl.position, position) > 9 THEN 0
      ELSE IF ~hasLineOfSight(m, pl.position, position) THEN 0
      ELSE (250 * falloff * falloff) \div Scale

\* getFootprintLightIntensity with a slip: every cell glows like a fresh entry
getFootprintLightIntensityEverywhere(pl, position) ==
  FOOTPRINT_MAX_INTENSITY * Scale

\* Player.getFootprintLightIntensity
getFootprintLightIntensity(pl, position) ==
  IF position \notin DOMAIN pl.footprints THEN 0
  ELSE pl.footprints[position].intensity * Scale

\* Player.getLightIntensity: the maximum of the three sources
getLightIntensity(pl, m, position) ==
  Max(getFlashlightIntensity(pl, m, position),
      Max(getAmbientLightIntensity(pl, m, position),
          getFootprintLightIntensity(pl, position)))

----------------------------------------------------------------------------
(* simulation/Monster.ts *)

\* the search stops expanding a node whose path is longer than this
SearchDepth == 15
\* the path is recalculated when the timer exceeds this
RecalculateInterval == 1000
\* the speed GameSimulation gives its monster
MonsterSpeed == 1200
FlashlightRange == 4

\* new Monster(startPosition, maze, 1200)
NewMonster(startPos) ==
  [position |-> startPos,
   speed |-> MonsterSpeed,
   lastMoveTime |-> 0,
   isActive |-> TRUE,
   fearOfLight |-> TRUE,
   path |-> <<>>,
   lastPlayerPosition |-> Vector2(-1, -1),
   recalculatePathTimer |-> 0]

\* Search with a slip: the new entries go to the front of the queue, so the
\* search runs depth first
RECURSIVE SearchDepthFirst(_, _, _, _)
SearchDepthFirst(m, queue, seen, target) ==
  IF queue = <<>> THEN <<>>
  ELSE LET pos == Head(queue).pos
           path == Head(queue).path
       IN  IF equals(pos, target) THEN path
           ELSE IF Len(path) > SearchDepth THEN SearchDepthFirst(m, Tail(queue), seen, target)
           ELSE LET fresh == SelectSeq(getAdjacentPositions(m, pos),
                                       LAMBDA q : q \notin seen /\ isWalkable(m, q))
                IN  SearchDepthFirst(m,
                           [k \in 1..Len(fresh) |->
                              [pos |-> fresh[k], path |-> Append(path, fresh[k])]]
                             \o Tail(queue),
                           seen \cup SeqToSet(fresh),
                           target)

\* Search with a slip: the test of the path's length is missing
RECURSIVE SearchUncapped(_, _, _, _)
SearchUncapped(m, queue, seen, target) ==
  IF queue = <<>> THEN <<>>
  ELSE LET pos == Head(queue).pos
           path == Head(queue).path
       IN  IF equals(pos, target) THEN path
           ELSE LET fresh == SelectSeq(getAdjacentPositions(m, pos),
                                       LAMBDA q : q \notin seen /\ isWalkable(m, q))
                IN  SearchUncapped(m,
                           Tail(queue) \o
                             [k \in 1..Len(fresh) |->
                                [pos |-> fresh[k], path |-> Append(path, fresh[k])]],
                           seen \cup SeqToSet(fresh),
                           target)

\* the breadth-first search of calculatePathToPlayer: queue entries are
\* {pos, path}; the result is the path of the first entry at the target,
\* or the empty path when the queue runs dry
RECURSIVE Search(_, _, _, _)
Search(m, queue, seen, target) ==
  IF queue = <<>> THEN <<>>
  ELSE LET pos == Head(queue).pos
           path == Head(queue).path
       IN  IF equals(pos, target) THEN path
           ELSE IF Len(path) > SearchDepth THEN Search(m, Tail(queue), seen, target)
           ELSE LET fresh == SelectSeq(getAdjacentPositions(m, pos),
                                       LAMBDA q : q \notin seen /\ isWalkable(m, q))
                IN  Search(m,
                           Tail(queue) \o
                             [k \in 1..Len(fresh) |->
                                [pos |-> fresh[k], path |-> Append(path, fresh[k])]],
                           seen \cup SeqToSet(fresh),
                           target)

\* calculatePathToPlayer with a slip: a search that finds nothing leaves
\* the old path in place
calculatePathToPlayerKeepsOld(m, mon, playerPosition) ==
  LET found == Search(m, <<[pos |-> mon.position, path |-> <<>>]>>, {mon.position},
                      playerPosition)
  IN  IF found = <<>> THEN mon.path ELSE found

\* the path calculatePathToPlayer stores
calculatePathToPlayer(m, mon, playerPosition) ==
  Search(m, <<[pos |-> mon.position, path |-> <<>>]>>, {mon.position}, playerPosition)

\* moveTowardsPlayer with a slip: the pursuer jumps to the second cell of a
\* path that has one
moveTowardsPlayerSkipsCell(m, mon) ==
  IF Len(mon.path) = 0 THEN mon
  ELSE IF Len(mon.path) = 1
       THEN [mon EXCEPT !.position = mon.path[1], !.path = <<>>]
       ELSE [mon EXCEPT !.position = mon.path[2], !.path = Tail(Tail(@))]

\* moveTowardsPlayer with a slip: the next cell is not tested
moveTowardsPlayerUntested(m, mon) ==
  IF Len(mon.path) = 0 THEN mon
  ELSE [mon EXCEPT !.position = mon.path[1], !.path = Tail(@)]

\* Monster.moveTowardsPlayer
moveTowardsPlayer(m, mon) ==
  IF Len(mon.path) = 0 THEN mon
  ELSE IF isWalkable(m, mon.path[1])
       THEN [mon EXCEPT !.position = mon.path[1], !.path = Tail(@)]
       ELSE [mon EXCEPT !.path = <<>>]

\* getLightIntensityAtPosition with a slip: the light falls off over twice
\* the range
getLightIntensityAtPositionSlowFalloff(mon, playerPosition) ==
  LET d2 == distanceTo2(mon.position, playerPosition)
      distance == ISqrt(d2 * Scale * Scale)
  IN  IF d2 > FlashlightRange * FlashlightRange THEN 0
      ELSE Scale - (distance \div (2 * FlashlightRange))

\* Monster.getLightIntensityAtPosition, in thousandths
getLightIntensityAtPosition(mon, playerPosition) ==
  LET d2 == distanceTo2(mon.position, playerPosition)
      \* the distance in thousandths
      distance == ISqrt(d2 * Scale * Scale)
  IN  IF d2 > FlashlightRange * FlashlightRange THEN 0
      ELSE LET v == Scale - (distance \div FlashlightRange)
           IN  IF v > 0 THEN v ELSE 0

\* speedModifier with a slip: the light is ignored
speedModifierIgnoringLight(mon, playerPosition) == 1

speedModifier(mon, playerPosition) ==
  IF mon.fearOfLight /\ getLightIntensityAtPosition(mon, playerPosition) > Scale \div 2
  THEN 2 ELSE 1

\* shouldRecalculate with a slip: the player's movement is not looked at
shouldRecalculateOnTimerOnly(mon, timer, playerPosition) ==
  timer > RecalculateInterval

\* the condition under which Monster.update recalculates the path, the timer
\* being the one already advanced by deltaTime
shouldRecalculate(mon, timer, playerPosition) ==
  \/ timer > RecalculateInterval
  \/ distanceTo2(mon.lastPlayerPosition, playerPosition) > 2 * 2

\* Monster.update with a slip: the pursuer moves on every update, whatever
\* the move timer
MonsterUpdateEveryFrame(m, mon, deltaTime, playerPosition) ==
  IF ~mon.isActive THEN mon
  ELSE
    LET t1 == [mon EXCEPT !.lastMoveTime = @ + deltaTime,
                          !.recalculatePathTimer = @ + deltaTime]
        t2 == IF shouldRecalculate(t1, t1.recalculatePathTimer, playerPosition)
              THEN [t1 EXCEPT !.path = calculatePathToPlayer(m, t1, playerPosition),
                              !.lastPlayerPosition = playerPosition,
                              !.recalculatePathTimer = 0]
              ELSE t1
    IN  [moveTowardsPlayer(m, t2) EXCEPT !.lastMoveTime = 0]

\* Monster.update(deltaTime, playerPosition, playerLightIntensity); the third
\* argument is never read
MonsterUpdate(m, mon, deltaTime, playerPosition) ==
  IF ~mon.isActive THEN mon
  ELSE
    LET t1 == [mon EXCEPT !.lastMoveTime = @ + deltaTime,
                          !.recalculatePathTimer = @ + deltaTime]
        modifier == speedModifier(t1, playerPosition)
        t2 == IF shouldRecalculate(t1, t1.recalculatePathTimer, playerPosition)
              THEN [t1 EXCEPT !.path = calculatePathToPlayer(m, t1, playerPosition),
                              !.lastPlayerPosition = playerPosition,
                              !.recalculatePathTimer = 0]
              ELSE t1
    IN  IF t2.lastMoveTime >= t2.speed * modifier
        THEN [moveTowardsPlayer(m, t2) EXCEPT !.lastMoveTime = 0]
        ELSE t2

\* hasCaughtPlayer with a slip: within one unit counts as caught
hasCaughtPlayerWithinOneUnit(mon, playerPosition) ==
  distanceTo2(mon.position, playerPosition) <= 1

hasCaughtPlayer(mon, playerPosition) == equals(mon.position, playerPosition)

\* resetPosition with a slip: the path is not cleared
resetPositionKeepsPath(mon, newPosition) ==
  [mon EXCEPT !.position = newPosition,
              !.lastMoveTime = 0,
              !.recalculatePathTimer = 0]

resetPosition(mon, newPosition) ==
  [mon EXCEPT !.position = newPosition,
              !.path = <<>>,
              !.lastMoveTime = 0,
              !.recalculatePathTimer = 0]

----------------------------------------------------------------------------
(* core/StateMachine.ts *)

EXPLORING == "exploring"
PAUSED    == "paused"
GAME_OVER == "game_over"
VICTORY   == "victory"

\* StateMachine.setState: the new state, always
setState(cur, newState) == IF cur # newState THEN newState ELSE cur

\* StateMachine.canTransitionTo(state) in the state cur: the table of the
\* valid transitions
canTransitionTo(cur, state) ==
  LET transitions == [s \in {EXPLORING, PAUSED, GAME_OVER, VICTORY} |->
                        IF s = EXPLORING THEN {PAUSED, GAME_OVER, VICTORY}
                        ELSE IF s = PAUSED THEN {EXPLORING, GAME_OVER}
                        ELSE {EXPLORING}]
  IN  state \in transitions[cur]

----------------------------------------------------------------------------
(* simulation/GameSimulation.ts *)

\* dot product of the normalized vectors a and b exceeds 0.7, decided on the
\* integers: a.b > 0 and (a.b)^2 / (|a|^2 |b|^2) > 0.49; a zero vector
\* normalizes to (0,0) and gives the dot product 0
DotAbove07(a, b) ==
  LET dot == a.x * b.x + a.y * b.y
  IN  /\ magnitude2(a) > 0 /\ magnitude2(b) > 0
      /\ dot > 0
      /\ 100 * dot * dot > 49 * magnitude2(a) * magnitude2(b)

isOnMainPath(m, p) ==
  DotAbove07(subtract(m.prizePosition, m.startPosition),
             subtract(p, m.startPosition))

walkableNeighbours(m, p) ==
  Cardinality({k \in 1..Len(getAdjacentPositions(m, p)) :
                 isWalkable(m, getAdjacentPositions(m, p)[k])})

\* isMonsterPositionSafe with a slip: every cell counts as safe
isMonsterPositionSafeAlways(m, p) == TRUE

isMonsterPositionSafe(m, p) ==
  IF walkableNeighbours(m, p) <= 2 THEN ~isOnMainPath(m, p) ELSE TRUE

\* the candidates of findMonsterStartPosition, before any filter
spawnFloorCells(m) ==
  {p \in AllPositions(m) :
     /\ m.grid[p] = FLOOR
     /\ ~equals(p, m.startPosition)
     /\ ~equals(p, m.prizePosition)}

\* validCells with a slip: the distance from the prize is not looked at
validCellsNearPrize(m) ==
  {p \in spawnFloorCells(m) : distanceTo2(m.startPosition, p) >= 5 * 5}

validCells(m) ==
  {p \in spawnFloorCells(m) :
     /\ distanceTo2(m.startPosition, p) >= 5 * 5
     /\ distanceTo2(m.prizePosition, p) >= 3 * 3}

safeCells(m) == {p \in validCells(m) : isMonsterPositionSafe(m, p)}

\* findMonsterStartPosition with a slip: neither filter is applied
findMonsterStartPositionAnyFloor(m) == spawnFloorCells(m)

\* findMonsterStartPosition with a slip: the fallback position is always taken
findMonsterStartPositionFallback(m) == {Vector2(m.width - 3, m.height - 3)}

\* the positions findMonsterStartPosition can return: one is drawn at random
findMonsterStartPosition(m) ==
  IF spawnFloorCells(m) = {} THEN {Vector2(m.width - 3, m.height - 3)}
  ELSE LET candidateCells == IF safeCells(m) # {} THEN safeCells(m) ELSE validCells(m)
       IN  IF candidateCells = {} THEN spawnFloorCells(m) ELSE candidateCells

\* the directions movePlayer is called with: the four unit directions, one of
\* the diagonals the keyboard handler builds from two pressed keys, and one
\* direction two cells long, which leaves the grid from column 1
MoveDirections ==
  {Vector2(0, -1), Vector2(1, 0), Vector2(0, 1), Vector2(-1, 0),
   Vector2(1, 1), Vector2(-2, 0)}

\* the frame times update is called with
DeltaTimes == {1200, 2400}

\* new GameSimulation(w, h), after its maze is built
Spawn ==
  /\ pc = "spawn"
  /\ player' = NewPlayer(maze.startPosition, now)
  /\ \E monsterStartPos \in findMonsterStartPosition(maze) :
       monster' = NewMonster(monsterStartPos)
  /\ currentState' = EXPLORING
  /\ pc' = "run"
  /\ last' = [op |-> "new", ret |-> "void"]
  /\ UNCHANGED <<maze, gen, godMode, now>>

\* movePlayer with a slip: a move is refused unless the game is in the
\* exploring state
MovePlayerWithinWhileExploring(direction, bound) ==
  /\ pc = "run"
  /\ LET newPosition == add(player.position, direction)
     IN  IF currentState = EXPLORING /\ isWalkable(maze, newPosition)
         THEN /\ Cardinality(DOMAIN move(player, direction, now).footprints) <= bound
              /\ player' = move(player, direction, now)
              /\ last' = [op |-> "movePlayer", ret |-> TRUE]
         ELSE /\ player' = player
              /\ last' = [op |-> "movePlayer", ret |-> FALSE]
  /\ UNCHANGED <<pc, maze, gen, monster, currentState, godMode, now>>

\* GameSimulation.movePlayer(direction); the model stops short of a move that
\* would give the trail more than `bound` entries
MovePlayerWithin(direction, bound) ==
  /\ pc = "run"
  /\ LET newPosition == add(player.position, direction)
     IN  IF isWalkable(maze, newPosition)
         THEN /\ Cardinality(DOMAIN move(player, direction, now).footprints) <= bound
              /\ player' = move(player, direction, now)
              /\ last' = [op |-> "movePlayer", ret |-> TRUE]
         ELSE /\ player' = player
              /\ last' = [op |-> "movePlayer", ret |-> FALSE]
  /\ UNCHANGED <<pc, maze, gen, monster, currentState, godMode, now>>

MovePlayer(direction) == MovePlayerWithin(direction, MaxTrail)

\* GameSimulation.checkWinCondition: the state it leaves
checkWinCondition(cur, pl, m) ==
  IF equals(pl.position, m.prizePosition) THEN setState(cur, VICTORY) ELSE cur

\* update with a slip: the win condition is checked before the capture
UpdateWinFirst(deltaTime) ==
  /\ pc = "run"
  /\ IF currentState # EXPLORING
     THEN UNCHANGED <<monster, currentState>>
     ELSE LET mon == MonsterUpdate(maze, monster, deltaTime, player.position)
          IN  /\ monster' = mon
              /\ currentState' =
                   IF equals(player.position, maze.prizePosition)
                   THEN setState(currentState, VICTORY)
                   ELSE IF hasCaughtPlayer(mon, player.position)
                        THEN setState(currentState, GAME_OVER)
                        ELSE currentState
  /\ last' = [op |-> "update", ret |-> "void"]
  /\ UNCHANGED <<pc, maze, gen, player, godMode, now>>

\* update with a slip: the state is not looked at
UpdateInAnyState(deltaTime) ==
  /\ pc = "run"
  /\ LET mon == MonsterUpdate(maze, monster, deltaTime, player.position)
     IN  /\ monster' = mon
         /\ currentState' =
              IF hasCaughtPlayer(mon, player.position)
              THEN setState(currentState, GAME_OVER)
              ELSE checkWinCondition(currentState, player, maze)
  /\ last' = [op |-> "update", ret |-> "void"]
  /\ UNCHANGED <<pc, maze, gen, player, godMode, now>>

\* GameSimulation.update(deltaTime).  lastUpdateTime, a private sum of the
\* frame times that nothing reads, is not kept.
Update(deltaTime) ==
  /\ pc = "run"
  /\ IF currentState # EXPLORING
     THEN UNCHANGED <<monster, currentState>>
     ELSE LET mon == MonsterUpdate(maze, monster, deltaTime, player.position)
          IN  /\ monster' = mon
              /\ currentState' =
                   IF hasCaughtPlayer(mon, player.position)
                   THEN setState(currentState, GAME_OVER)
                   ELSE checkWinCondition(currentState, player, maze)
  /\ last' = [op |-> "update", ret |-> "void"]
  /\ UNCHANGED <<pc, maze, gen, player, godMode, now>>

\* GameSimulation.reset()
Reset ==
  /\ pc = "run"
  /\ player' = setFlashlightDirection(setPosition(player, maze.startPosition),
                                      Vector2(0, -1))
  /\ \E newMonsterPos \in findMonsterStartPosition(maze) :
       monster' = resetPosition(monster, newMonsterPos)
  /\ currentState' = setState(currentState, EXPLORING)
  /\ last' = [op |-> "reset", ret |-> "void"]
  /\ UNCHANGED <<pc, maze, gen, godMode, now>>

\* togglePause with a slip: the second test is left out, every state but
\* paused is switched to paused
togglePauseFromAnyState(cur) ==
  IF cur = PAUSED THEN setState(cur, EXPLORING) ELSE setState(cur, PAUSED)

\* GameSimulation.togglePause(): the state it leaves
togglePause(cur) ==
  IF cur = EXPLORING THEN setState(cur, PAUSED)
  ELSE IF cur = PAUSED THEN setState(cur, EXPLORING)
       ELSE cur

\* GameSimulation.togglePause()
TogglePause ==
  /\ pc = "run"
  /\ currentState' = togglePause(currentState)
  /\ last' = [op |-> "togglePause", ret |-> "void"]
  /\ UNCHANGED <<pc, maze, gen, player, monster, godMode, now>>

\* the directions the mouse handler aims the flashlight in: along the axes
\* and along one diagonal
AimDirections ==
  {Vector2(0, -1), Vector2(1, 0), Vector2(0, 1), Vector2(-1, 0), Vector2(1, 1)}

\* GameSimulation.setFlashlightDirection(direction)
SetFlashlightDirection(direction) ==
  /\ pc = "run"
  /\ player' = setFlashlightDirection(player, direction)
  /\ last' = [op |-> "setFlashlightDirection", ret |-> "void"]
  /\ UNCHANGED <<pc, maze, gen, monster, currentState, godMode, now>>

\* GameSimulation.toggleGodMode()
ToggleGodMode ==
  /\ pc = "run"
  /\ godMode' = ~godMode
  /\ last' = [op |-> "toggleGodMode", ret |-> "void"]
  /\ UNCHANGED <<pc, maze, gen, player, monster, currentState, now>>

\* GameSimulation.rotateFlashlight(angle)
RotateFlashlight(angle) ==
  /\ pc = "run"
  /\ player' = rotateFlashlight(player, angle)
  /\ last' = [op |-> "rotateFlashlight", ret |-> "void"]
  /\ UNCHANGED <<pc, maze, gen, monster, currentState, godMode, now>>

\* the floor intensity of god mode: 0.2, in millionths
GodModeIntensity == 200 * Scale

\* getVisibleCells with a slip: the ordinary mode keeps the dark cells
getVisibleCellsWithDark(m, pl, god) ==
  {[cell |-> p, intensity |-> getLightIntensity(pl, m, p)] : p \in AllPositions(m)}

\* GameSimulation.getVisibleCells(): the {cell, intensity} pairs it returns
getVisibleCells(m, pl, god) ==
  IF god
  THEN {[cell |-> p,
         intensity |-> IF getLightIntensity(pl, m, p) > 0
                       THEN getLightIntensity(pl, m, p) ELSE GodModeIntensity] :
          p \in AllPositions(m)}
  ELSE {[cell |-> p, intensity |-> getLightIntensity(pl, m, p)] :
          p \in {q \in AllPositions(m) : getLightIntensity(pl, m, q) > 0}}

\* new GameSimulation(SimDim, SimDim) and the calls made on it
Init == MazeInit(SimDim, SimDim)

Next ==
  \/ CarveStep
  \/ AddRandomConnection
  \/ PlaceStartAndPrize
  \/ Spawn
  \/ \E direction \in MoveDirections : MovePlayer(direction)
  \/ \E deltaTime \in DeltaTimes : Update(deltaTime)
  \/ Reset
  \/ TogglePause

Spec == Init /\ [][Next]_vars

\* new GameSimulation(SimDim, SimDim), the player walking and aiming and god
\* mode toggled: the calls getVisibleCells depends on
ViewNext ==
  \/ CarveStep
  \/ AddRandomConnection
  \/ PlaceStartAndPrize
  \/ Spawn
  \/ \E k \in 1..4 : MovePlayer(directions[k])
  \/ \E direction \in AimDirections : SetFlashlightDirection(direction)
  \/ ToggleGodMode

SpecView == Init /\ [][ViewNext]_vars

\* the constructor of GameSimulation up to player.setMaze(maze): the Player
\* of a simulation, taken without its monster, which nothing in Player reads
SpawnPlayer ==
  /\ pc = "spawn"
  /\ player' = NewPlayer(maze.startPosition, now)
  /\ pc' = "run"
  /\ last' = [op |-> "new", ret |-> "void"]
  /\ UNCHANGED <<maze, gen, monster, currentState, godMode, now>>

\* a Player on a maze of LightWidth x LightHeight, where a cell can be out of
\* the flashlight's range, walking and aiming
InitLight == MazeInit(LightWidth, LightHeight)

LightNext ==
  \/ CarveStep
  \/ AddRandomConnection
  \/ PlaceStartAndPrize
  \/ SpawnPlayer
  \/ \E k \in 1..4 : MovePlayerWithin(directions[k], MaxWalk)
  \/ \E direction \in AimDirections : SetFlashlightDirection(direction)

SpecLight == InitLight /\ [][LightNext]_vars

\* the clock advances between two calls
Tick ==
  /\ pc = "run"
  /\ now + ClockStep <= MaxNow
  /\ now' = now + ClockStep
  /\ UNCHANGED <<pc, maze, gen, player, monster, currentState, godMode, last>>

\* new GameSimulation(SimDim, SimDim) under a running clock: the player
\* walks and the game loop calls update
ClockNext ==
  \/ CarveStep
  \/ AddRandomConnection
  \/ PlaceStartAndPrize
  \/ Spawn
  \/ \E k \in 1..4 : MovePlayer(directions[k])
  \/ \E deltaTime \in DeltaTimes : Update(deltaTime)
  \/ Tick

SpecClock == Init /\ [][ClockNext]_vars

\* player.updateFootprints(deltaTime), a public method of Player that
\* GameSimulation does not call
UpdateFootprints ==
  /\ pc = "run"
  /\ player' = updateFootprints(player, now)
  /\ last' = [op |-> "updateFootprints", ret |-> "void"]
  /\ UNCHANGED <<pc, maze, gen, monster, currentState, godMode, now>>

\* a Player on a maze of SimDim x SimDim under a running clock, walking, its
\* updateFootprints called at any time
FootprintsNext ==
  \/ CarveStep
  \/ AddRandomConnection
  \/ PlaceStartAndPrize
  \/ SpawnPlayer
  \/ \E k \in 1..4 : MovePlayer(directions[k])
  \/ UpdateFootprints
  \/ Tick

SpecFootprints == Init /\ [][FootprintsNext]_vars

\* new GameSimulation(w, SimDim) for the widths SimDim and SpawnWidth, and
\* reset(): the calls that place the pursuer
InitSpawn == \E w \in {SimDim, SpawnWidth} : MazeInit(w, SimDim)

SpawnNext ==
  \/ CarveStep
  \/ AddRandomConnection
  \/ AddStrategicConnection
  \/ PlaceStartAndPrize
  \/ Spawn
  \/ Reset

SpecSpawn == InitSpawn /\ [][SpawnNext]_vars

\* new Maze(w, h) for every width and height of 5..MaxDim and for
\* WideWidth x SimDim
InitWideMaze ==
  \/ \E w \in 5..MaxDim, h \in 5..MaxDim : MazeInit(w, h)
  \/ MazeInit(WideWidth, SimDim)

SpecWideMaze == InitWideMaze /\ [][MazeNext]_vars

\* the floor of one maze generateSimpleMaze builds on a grid of w x h: the
\* carving runs from (1,1) down the first column, along the bottom row, up
\* the last column and back along the top row to (3,1), and no connection
\* opens a wall
CorridorFloor(w, h, p) ==
  \/ p.x = 1 /\ p.y \in 1..(h - 2)
  \/ p.y = h - 2 /\ p.x \in 1..(w - 2)
  \/ p.x = w - 2 /\ p.y \in 1..(h - 2)
  \/ p.y = 1 /\ p.x \in 3..(w - 2)

CorridorGrid(w, h) ==
  [p \in {Vector2(x, y) : x \in 0..(w - 1), y \in 0..(h - 1)} |->
     IF CorridorFloor(w, h, p) THEN FLOOR ELSE WALL]

\* new Maze(w, h) at the return of generateSimpleMaze with the floor `grid`
\* built: start and prize are not yet placed
InitBuilt(w, h, grid) ==
  /\ pc = "place"
  /\ maze = [width |-> w, height |-> h,
             grid |-> grid,
             startPosition |-> NotConstructed,
             prizePosition |-> NotConstructed]
  /\ gen = [stack |-> <<>>,
            visited |-> {q \in DOMAIN grid :
                           /\ q.x % 2 = 1 /\ q.y % 2 = 1
                           /\ q.x < w - 1 /\ q.y < h - 1},
            i |-> 0, regenerating |-> FALSE]
  /\ player = NotConstructed
  /\ monster = NotConstructed
  /\ currentState = "none"
  /\ godMode = FALSE
  /\ now = 0
  /\ last = [op |-> "none", ret |-> "void"]

InitCorridorOf(w, h) == InitBuilt(w, h, CorridorGrid(w, h))

\* the corridor maze in which addRandomConnections has opened the cell (2,2)
CrossroadsGrid(w, h) == [CorridorGrid(w, h) EXCEPT ![Vector2(2, 2)] = FLOOR]

\* the corridor maze of WideWidth x SimDim
InitCorridor == InitCorridorOf(WideWidth, SimDim)

\* the frame times of the game loop where the pursuer's two timers matter:
\* one below the recalculation interval, one above it
FrameTimes == {600, 1200}

\* new GameSimulation(WideWidth, SimDim) on the corridor maze: the player
\* walks and the game loop calls update
PursuitNext ==
  \/ PlaceStartAndPrize
  \/ Spawn
  \/ \E k \in 1..4 : MovePlayerWithin(directions[k], PursuitTrail)
  \/ \E deltaTime \in FrameTimes : Update(deltaTime)

SpecPursuit == InitCorridor /\ [][PursuitNext]_vars

\* maze.setCellType(position, CellType.WALL), a public method of Maze the
\* game itself calls only while it builds the maze: a caller closes a floor
\* cell of the running simulation; the model closes no cell once FloorKept
\* or fewer cells can be walked on
WallCell(position) ==
  /\ pc = "run"
  /\ maze.grid[position] = FLOOR
  /\ Cardinality({q \in DOMAIN maze.grid : maze.grid[q] # WALL}) > FloorKept
  /\ maze' = setCellType(maze, position, WALL)
  /\ last' = [op |-> "setCellType", ret |-> "void"]
  /\ UNCHANGED <<pc, gen, player, monster, currentState, godMode, now>>

\* new GameSimulation(SimDim, SimDim) with updates and a caller that closes
\* floor cells between them
StaleNext ==
  \/ CarveStep
  \/ AddRandomConnection
  \/ PlaceStartAndPrize
  \/ Spawn
  \/ \E deltaTime \in FrameTimes : Update(deltaTime)
  \/ \E position \in DOMAIN maze.grid : WallCell(position)

SpecStale == Init /\ [][StaleNext]_vars

\* new GameSimulation(SimDim, SimDim) played and reset: the player walks,
\* the game loop calls update with frame times below and above the
\* recalculation interval, and reset() is called at any time
ResetNext ==
  \/ CarveStep
  \/ AddRandomConnection
  \/ PlaceStartAndPrize
  \/ Spawn
  \/ \E k \in 1..4 : MovePlayer(directions[k])
  \/ \E deltaTime \in FrameTimes : Update(deltaTime)
  \/ Reset

SpecReset == Init /\ [][ResetNext]_vars

\* the angles rotateFlashlight is called with: a quarter turn either way
TurnAngles == {PI \div 2, 0 - PI \div 2}

\* the game has ended
Ended == currentState \in {GAME_OVER, VICTORY}

\* new GameSimulation(SimDim, SimDim) on the corridor maze with the cell
\* (2,2) open, under every command of the input layer and the updates of the
\* game loop; the aim commands, which neither read nor write the game state
\* and the pursuer, are issued once the game has ended
CommandsNext ==
  \/ PlaceStartAndPrize
  \/ Spawn
  \/ \E direction \in MoveDirections : MovePlayer(direction)
  \/ \E deltaTime \in DeltaTimes : Update(deltaTime)
  \/ Reset
  \/ TogglePause
  \/ ToggleGodMode
  \/ Ended /\ \E direction \in AimDirections : SetFlashlightDirection(direction)
  \/ Ended /\ \E angle \in TurnAngles : RotateFlashlight(angle)

SpecCommands ==
  InitBuilt(SimDim, SimDim, CrossroadsGrid(SimDim, SimDim)) /\ [][CommandsNext]_vars

----------------------------------------------------------------------------
(* Claims about the constructed maze *)

\* the Maze constructor has returned
MazeConstructed == pc \in {"spawn", "run"}

Odd(n) == n % 2 = 1

\* C1: every maze the constructor produces with odd width and height of at
\* least 5 has a path of 4-adjacent walkable cells from startPosition to
\* prizePosition, whatever the random choices were
C1_PathFromStartToPrize ==
  (MazeConstructed /\ Odd(maze.width) /\ Odd(maze.height)
     /\ maze.width >= 5 /\ maze.height >= 5)
  => /\ isWalkable(maze, maze.startPosition)
     /\ isWalkable(maze, maze.prizePosition)
     /\ maze.prizePosition \in ReachableFrom(maze, maze.startPosition)

\* a constructed 7 x 7 maze in which an extra connection has been opened
\* (more floor cells than the 17 of a spanning tree of the 3 x 3 lattice)
C1_Witness ==
  /\ pc = "spawn" /\ maze.width = 7 /\ maze.height = 7
  /\ Cardinality({p \in AllPositions(maze) : maze.grid[p] # WALL}) > 17

\* C2: in every maze the constructor produces (width, height >= 5) every
\* non-wall cell is reachable from startPosition through 4-adjacent walkable
\* cells
C2_NoIsolatedFloor ==
  (MazeConstructed /\ maze.width >= 5 /\ maze.height >= 5)
  => \A p \in AllPositions(maze) :
       maze.grid[p] # WALL => p \in ReachableFrom(maze, maze.startPosition)

\* a constructed maze of even width where both connection passes opened a wall
C2_Witness ==
  /\ pc = "spawn" /\ maze.width = 6 /\ maze.height = 7
  /\ Cardinality({p \in AllPositions(maze) : maze.grid[p] # WALL}) > 12

\* the cells of the grid whose type is `type`
CellsOfType(type) == {p \in AllPositions(maze) : maze.grid[p] = type}

\* C11: in every outcome of the Maze constructor, the regenerating branch
\* included, exactly one cell has type start and it is startPosition, exactly
\* one cell has type prize and it is prizePosition, and the two cells differ
C11_OneStartOnePrize ==
  MazeConstructed
  => /\ CellsOfType(START) = {maze.startPosition}
     /\ CellsOfType(PRIZE) = {maze.prizePosition}
     /\ maze.startPosition # maze.prizePosition

----------------------------------------------------------------------------
(* Claims about the running simulation *)

Running == pc = "run"

\* the step is a call of update made while the state is exploring
UpdateWhileExploring == Running /\ currentState = EXPLORING /\ last'.op = "update"

\* C3: after construction, after every reset and after every update the
\* pursuer stands on a cell inside the grid that is not a wall
C3_MonsterOnWalkableCell ==
  Running => /\ isValidPosition(maze, monster.position)
             /\ maze.grid[monster.position] # WALL

\* an update has just moved the pursuer one cell along a longer path
C3_Witness ==
  /\ Running /\ last.op = "update"
  /\ monster.lastMoveTime = 0 /\ monster.path # <<>>

\* C4: an update made while exploring leaves the state game-over exactly when
\* the pursuer, once advanced, and the player are on the same cell; one cell
\* apart is not a capture
C4_CaptureExactlyOnSameCell ==
  [][UpdateWhileExploring =>
       /\ currentState' = GAME_OVER
            <=> (monster'.position.x = player'.position.x
                 /\ monster'.position.y = player'.position.y)
       /\ distanceTo2(monster'.position, player'.position) = 1
            => currentState' # GAME_OVER]_vars

\* an update has stepped the pursuer onto the player's cell
C4_Witness ==
  /\ Running /\ last.op = "update" /\ currentState = GAME_OVER
  /\ monster.position = player.position /\ monster.lastMoveTime = 0

\* C5 as stated: with the player on the prize cell and the state exploring,
\* the next update leaves the state victory
C5_Original ==
  [][(UpdateWhileExploring /\ player.position = maze.prizePosition)
       => currentState' = VICTORY]_vars

\* C5, amended: with the player on the prize cell and the state exploring, the
\* next update leaves the state victory unless the pursuer, once advanced,
\* is on the player's cell; then it leaves the state game-over
C5_VictoryUnlessCaptured ==
  [][(UpdateWhileExploring /\ player.position = maze.prizePosition)
       => currentState' = IF monster'.position = maze.prizePosition
                          THEN GAME_OVER ELSE VICTORY]_vars

\* an update has found the player on the prize and declared victory
C5_Witness ==
  /\ Running /\ last.op = "update" /\ currentState = VICTORY
  /\ player.position = maze.prizePosition
  /\ player.position # maze.startPosition

\* the pursuer has just been placed (by the constructor or by reset) on a cell
\* 4-adjacent to the player, and the step is the first update after that
FirstUpdateNextToPlayer ==
  /\ UpdateWhileExploring
  /\ last.op \in {"new", "reset"}
  /\ distanceTo2(monster.position, player.position) = 1

NotWalkableCell(p) ==
  \/ p.x < 0 \/ p.x >= maze.width \/ p.y < 0 \/ p.y >= maze.height
  \/ maze.grid[p] = WALL

\* C7: movePlayer towards a wall cell or a cell outside the grid returns false
\* and leaves the player's position, facing and footprint trail unchanged
C7_BlockedMoveChangesNothing ==
  [][\A direction \in MoveDirections :
       (MovePlayer(direction) /\ NotWalkableCell(add(player.position, direction)))
         => /\ last'.ret = FALSE
            /\ player'.position = player.position
            /\ player'.facing = player.facing
            /\ player'.footprints = player.footprints]_vars

\* movePlayer has returned false
C7_Witness ==
  /\ Running /\ last.op = "movePlayer" /\ last.ret = FALSE

\* the footprint trail holds a full-intensity entry at p
FreshFootprintAt(pl, p) ==
  /\ p \in DOMAIN pl.footprints
  /\ pl.footprints[p].position = p
  /\ pl.footprints[p].intensity = FOOTPRINT_MAX_INTENSITY

\* C8 as stated: movePlayer returns true exactly when the destination is
\* walkable, and then the position becomes position + direction, facing
\* becomes the direction and the trail holds a full-intensity entry at the new
\* position
C8_Original ==
  [][\A direction \in MoveDirections :
       MovePlayer(direction)
         => /\ last'.ret = ~NotWalkableCell(add(player.position, direction))
            /\ last'.ret = TRUE
                 => /\ player'.position = add(player.position, direction)
                    /\ player'.facing = Thousandths(direction)
                    /\ FreshFootprintAt(player', player'.position)]_vars

\* v is, in thousandths, the unit vector along d: parallel to d, pointing the
\* same way, of length 1 up to the rounding of each component
UnitVectorAlong(v, d) ==
  /\ v.x * d.y = v.y * d.x
  /\ v.x * d.x + v.y * d.y > 0
  /\ magnitude2(v) <= Scale * Scale
  /\ magnitude2(v) > (Scale - 2) * (Scale - 2)

\* C8, amended: movePlayer returns true exactly when the destination is
\* walkable, and then the position becomes position + direction, facing
\* becomes the direction normalized to unit length (the direction itself only
\* for the four unit directions) and the trail holds a full-intensity entry at
\* the new position
C8_MoveToWalkableCell ==
  [][\A direction \in MoveDirections :
       MovePlayer(direction)
         => /\ last'.ret = ~NotWalkableCell(add(player.position, direction))
            /\ last'.ret = TRUE
                 => /\ player'.position = add(player.position, direction)
                    /\ UnitVectorAlong(player'.facing, direction)
                    /\ FreshFootprintAt(player', player'.position)]_vars

\* movePlayer has returned true for the diagonal direction
C8_Witness ==
  /\ Running /\ last.op = "movePlayer" /\ last.ret = TRUE
  /\ player.facing.x # 0 /\ player.facing.y # 0

\* C9: reset called in the game-over state leaves the state exploring, the
\* player on startPosition and the trail with exactly one entry, freshly
\* made at startPosition
C9_ResetClearsFootprints ==
  [][(Running /\ currentState = GAME_OVER /\ last'.op = "reset")
       => /\ currentState' = EXPLORING
          /\ player'.position = maze.startPosition
          /\ DOMAIN player'.footprints = {maze.startPosition}
          /\ FreshFootprintAt(player', maze.startPosition)
          /\ player'.footprints[maze.startPosition].timestamp = now']_vars

\* C10: update called while the state is paused, game-over or victory changes
\* neither the pursuer (position, path, both timers) nor the player nor the
\* state, whatever deltaTime is
C10_UpdateOutsideExploringIsNoOp ==
  [][\A deltaTime \in DeltaTimes :
       (Running /\ currentState # EXPLORING /\ Update(deltaTime))
         => /\ monster' = monster
            /\ player' = player
            /\ currentState' = currentState]_vars

\* update has been called while the game was paused by a pursuer on the move
C10_Witness ==
  /\ Running /\ last.op = "update" /\ currentState = PAUSED
  /\ monster.path # <<>>

----------------------------------------------------------------------------
(* Claims about the light *)

\* the true illumination of the cell p
Light(p) == getLightIntensity(player, maze, p)

\* C12: with god mode enabled getVisibleCells returns every cell of the maze,
\* each with an intensity of at least the floor value 0.2, and a cell whose
\* true illumination is nonzero is returned with that intensity, which is
\* higher than the floor
C12_GodModeFloorIntensity ==
  (Running /\ godMode)
  => LET visibleCells == getVisibleCells(maze, player, godMode)
     IN  /\ {v.cell : v \in visibleCells} = AllPositions(maze)
         /\ \A v \in visibleCells : v.intensity >= GodModeIntensity
         /\ \A p \in AllPositions(maze) :
              Light(p) > 0 => /\ [cell |-> p, intensity |-> Light(p)] \in visibleCells
                              /\ Light(p) > GodModeIntensity

\* the target p is beyond the flashlight's range and outside its cone
BeyondRangeOutsideCone(p) ==
  /\ distanceTo2(player.position, p) > flashlightRange * flashlightRange
  /\ angleTo(player, p) > flashlightAngle \div 2

\* the intensity stored in the trail entry at p, 0 where the trail has none
TrailIntensity(p) ==
  IF p \in DOMAIN player.footprints THEN player.footprints[p].intensity * Scale ELSE 0

\* C13 as stated: a target beyond the flashlight's range and outside its cone
\* has intensity 0, whatever the aim and whatever entries the trail holds
C13_Original ==
  Running => \A p \in AllPositions(maze) : BeyondRangeOutsideCone(p) => Light(p) = 0

\* C13, amended: a target beyond the flashlight's range and outside its cone
\* has intensity 0 unless the trail holds an entry at the target; then its
\* intensity is the one stored in that entry
C13_DarkBeyondRangeButForTrail ==
  Running => \A p \in AllPositions(maze) :
               BeyondRangeOutsideCone(p) => Light(p) = TrailIntensity(p)

\* the player stands more than 4 cells from an entry of its trail, which is
\* outside the cone, and from a walkable cell it never visited, also outside
C13_Witness ==
  /\ Running
  /\ \E p \in DOMAIN player.footprints : BeyondRangeOutsideCone(p)
  /\ \E p \in AllPositions(maze) :
       /\ BeyondRangeOutsideCone(p) /\ isWalkable(maze, p)
       /\ p \notin DOMAIN player.footprints

\* a wall cell lies strictly between the player and p on their common row or
\* column
WallBetween(p) ==
  \E w \in AllPositions(maze) :
    /\ maze.grid[w] = WALL
    /\ \/ /\ w.y = p.y /\ w.y = player.position.y
          /\ (w.x - p.x) * (w.x - player.position.x) < 0
       \/ /\ w.x = p.x /\ w.x = player.position.x
          /\ (w.y - p.y) * (w.y - player.position.y) < 0

\* the target p is inside the flashlight's range and cone
InsideRangeAndCone(p) ==
  /\ distanceTo2(player.position, p) <= flashlightRange * flashlightRange
  /\ distanceTo2(player.position, p) > 0
  /\ angleTo(player, p) <= flashlightAngle \div 2

C15_IntensityInUnitInterval ==
  Running => \A p \in AllPositions(maze) : Light(p) \in 0..Micro

\* the flashlight, aimed along the diagonal, lights a cell one step ahead
\* brighter than any other source can
C15_Witness ==
  /\ Running
  /\ player.flashlightDirection.x # 0 /\ player.flashlightDirection.y # 0
  /\ \E p \in AllPositions(maze) : Light(p) > Micro \div 2

\* C16: with god mode off getVisibleCells returns exactly the cells whose
\* intensity is greater than 0, each paired with that intensity
C16_OrdinaryModeReturnsLitCells ==
  (Running /\ ~godMode)
  => LET visibleCells == getVisibleCells(maze, player, godMode)
     IN  /\ \A p \in AllPositions(maze) :
              Light(p) > 0 <=> \E v \in visibleCells : v.cell = p
         /\ \A v \in visibleCells : v.intensity = Light(v.cell) /\ v.intensity > 0

\* god mode has been switched off again, the player has walked and lights
\* some cells with the flashlight while a walkable cell stays dark
C16_Witness ==
  /\ Running /\ ~godMode /\ last.op = "toggleGodMode"
  /\ player.position # maze.startPosition
  /\ \E p \in AllPositions(maze) : getFlashlightIntensity(player, maze, p) > 0
  /\ \E p \in AllPositions(maze) : isWalkable(maze, p) /\ Light(p) = 0

----------------------------------------------------------------------------
(* Claims about the footprint trail under a running clock *)

\* the age of the trail entry at p
Age(p) == now - player.footprints[p].timestamp

\* C17: as the clock advances under per-frame update calls every entry of the
\* trail decays and is removed once fully decayed: after an update no entry
\* whose age has reached FOOTPRINT_FADE_TIME is in the trail or adds light,
\* and an entry older than 0 is dimmer than a fresh one
C17_UpdateDecaysFootprints ==
  [][\A deltaTime \in DeltaTimes :
       (currentState = EXPLORING /\ Update(deltaTime))
         => \A p \in DOMAIN player'.footprints :
              /\ now' - player'.footprints[p].timestamp < FOOTPRINT_FADE_TIME
              /\ now' - player'.footprints[p].timestamp > 0
                   => player'.footprints[p].intensity < FOOTPRINT_MAX_INTENSITY]_vars

\* the ages the decay curve is examined at: every 500 ms of the window
Ages == {500 * k : k \in 0..(FOOTPRINT_FADE_TIME \div 500)}

\* C18: an entry's intensity is FOOTPRINT_MAX_INTENSITY at age 0, half of it
\* at half the window, never greater at a greater age, and at the age
\* FOOTPRINT_FADE_TIME it is 0: updateFootprints stores
\* FOOTPRINT_MAX_INTENSITY * (cos(PI * age / window) + 1) / 2 in every entry
\* younger than the window and removes the others, so that they give no light
C18_FootprintIntensityCurve ==
  [][UpdateFootprints
       => /\ fadedIntensity(0) = FOOTPRINT_MAX_INTENSITY
          /\ fadedIntensity(FOOTPRINT_FADE_TIME \div 2) = FOOTPRINT_MAX_INTENSITY \div 2
          /\ fadedIntensity(FOOTPRINT_FADE_TIME) = 0
          /\ \A a \in Ages, b \in Ages :
               a <= b => fadedIntensity(b) <= fadedIntensity(a)
          /\ \A p \in DOMAIN player.footprints :
               IF Age(p) >= FOOTPRINT_FADE_TIME
               THEN /\ p \notin DOMAIN player'.footprints
                    /\ getFootprintLightIntensity(player', p) = 0
               ELSE /\ p \in DOMAIN player'.footprints
                    /\ player'.footprints[p].timestamp = player.footprints[p].timestamp
                    /\ player'.footprints[p].intensity = fadedIntensity(Age(p))
                    /\ player'.footprints[p].intensity <= player.footprints[p].intensity
                    /\ Age(p) = 0
                         => player'.footprints[p].intensity = FOOTPRINT_MAX_INTENSITY]_vars

\* updateFootprints has removed the entry made at the start and dimmed a
\* younger one, and the player stands on a fresh one
C18_Witness ==
  /\ Running /\ last.op = "updateFootprints"
  /\ maze.startPosition \notin DOMAIN player.footprints
  /\ \E p \in DOMAIN player.footprints :
       /\ Age(p) > 0
       /\ player.footprints[p].intensity > 0
       /\ player.footprints[p].intensity < FOOTPRINT_MAX_INTENSITY
  /\ \E p \in DOMAIN player.footprints :
       Age(p) = 0 /\ player.footprints[p].intensity = FOOTPRINT_MAX_INTENSITY

----------------------------------------------------------------------------
(* Claims about the placement of the pursuer *)

\* the step is the constructor of GameSimulation or reset(): both place the
\* pursuer at findMonsterStartPosition()
PlacesPursuer == Spawn \/ Reset

\* floor cells other than start and prize
Candidates == {p \in AllPositions(maze) :
                 maze.grid[p] = FLOOR /\ p # maze.startPosition /\ p # maze.prizePosition}

\* p is at distance at least 5 from start and at least 3 from the prize
FarFromStartAndPrize(p) ==
  /\ distanceTo2(maze.startPosition, p) >= 25
  /\ distanceTo2(maze.prizePosition, p) >= 9

\* C19: on a maze of at least 5 x 5 the placement never fails: there is a
\* candidate, and the pursuer is put on a floor cell that is neither start nor
\* prize, one of the safe cells if there is any, else one of the cells that
\* pass the distance filter if there is any, else any candidate
C19_PlacementNeverFails ==
  [][PlacesPursuer
       => /\ Candidates # {}
          /\ monster'.position \in Candidates
          /\ safeCells(maze) # {} => monster'.position \in safeCells(maze)
          /\ (safeCells(maze) = {} /\ validCells(maze) # {})
               => monster'.position \in validCells(maze)]_vars

\* reset has placed the pursuer on a cell that passes the distance filter in
\* a maze that has no safe cell
C19_Witness ==
  /\ Running /\ last.op = "reset"
  /\ safeCells(maze) = {} /\ validCells(maze) # {}
  /\ monster.position \in validCells(maze)

\* C20: whenever some candidate is at distance at least 5 from start and at
\* least 3 from the prize, the cell the pursuer is put on by the constructor
\* and by every reset is at those distances too
C20_SpawnKeepsDistances ==
  [][(PlacesPursuer /\ \E p \in Candidates : FarFromStartAndPrize(p))
       => FarFromStartAndPrize(monster'.position)]_vars

\* the constructor has placed the pursuer far from start and prize in a maze
\* that has safe cells
C20_Witness ==
  /\ Running /\ last.op = "new"
  /\ safeCells(maze) # {}
  /\ FarFromStartAndPrize(monster.position)

\* p has at most 2 walkable neighbours and lies along the direction from
\* start to the prize
CorridorTowardsPrize(p) ==
  /\ Cardinality({q \in AllPositions(maze) :
                    distanceTo2(p, q) = 1 /\ maze.grid[q] # WALL}) <= 2
  /\ DotAbove07(subtract(maze.prizePosition, maze.startPosition),
                subtract(p, maze.startPosition))

\* C21: whenever some candidate that passes the distance filter is safe, the
\* cell the pursuer is put on is safe: it is not a cell that has at most 2
\* walkable neighbours and lies along the direction from start to the prize
C21_SpawnCellIsSafe ==
  [][(PlacesPursuer
        /\ \E p \in Candidates : FarFromStartAndPrize(p) /\ ~CorridorTowardsPrize(p))
       => ~CorridorTowardsPrize(monster'.position)]_vars

\* reset has placed the pursuer on a safe cell in a maze where another cell
\* passes the distance filter and is not safe
C21_Witness ==
  /\ Running /\ last.op = "reset"
  /\ \E p \in Candidates : FarFromStartAndPrize(p) /\ CorridorTowardsPrize(p)
  /\ FarFromStartAndPrize(monster.position)
  /\ ~CorridorTowardsPrize(monster.position)

----------------------------------------------------------------------------
(* Claims about the pursuer's update *)

\* an update in the exploring state with the frame time deltaTime applies the
\* speed modifier k: the move timer, advanced by deltaTime, is reset to 0
\* exactly when it has reached speed * k
AppliesModifier(deltaTime, k) ==
  /\ speedModifier(monster, player.position) = k
  /\ monster'.lastMoveTime = 0
       <=> monster.lastMoveTime + deltaTime >= monster.speed * k

WalkableNextTo(cells) ==
  {q \in DOMAIN maze.grid :
     maze.grid[q] # WALL /\ \E p \in cells : distanceTo2(p, q) = 1}

\* the number of steps of a shortest walkable route from the cells of
\* `frontier`, n steps into a search that has seen `seen`, to the cell `to`;
\* -1 when there is no route
RECURSIVE StepsFrom(_, _, _, _)
StepsFrom(seen, frontier, to, n) ==
  IF to \in frontier THEN n
  ELSE IF frontier = {} THEN 0 - 1
  ELSE StepsFrom(seen \cup frontier, WalkableNextTo(frontier) \ (seen \cup frontier),
                 to, n + 1)

RouteLength(from, to) == StepsFrom({}, {from}, to, 0)

\* an update in the exploring state that recomputes the path: the advanced
\* timer exceeds 1000 ms, or the player is more than 2 units from the
\* position recorded last
Recomputes(deltaTime) ==
  /\ Update(deltaTime) /\ currentState = EXPLORING
  /\ \/ monster.recalculatePathTimer + deltaTime > 1000
     \/ distanceTo2(monster.lastPlayerPosition, player.position) > 2 * 2

\* C23 as stated: a recompute with the player more than 15 steps away leaves
\* the stored path empty
C23_Original ==
  [][\A deltaTime \in FrameTimes :
       (Recomputes(deltaTime) /\ RouteLength(monster.position, player.position) > 15)
         => monster'.path = <<>>]_vars

\* C23: a recompute with the player more than 16 steps away by the shortest
\* walkable route finds no path: the stored path is left empty and the
\* pursuer stays where it is
C23_NoPathBeyondSearchCap ==
  [][\A deltaTime \in FrameTimes :
       (Recomputes(deltaTime) /\ RouteLength(monster.position, player.position) > 16)
         => /\ monster'.path = <<>>
            /\ monster'.position = monster.position]_vars

\* a recompute has just left the path empty with the player 17 steps away
C23_Witness ==
  /\ Running /\ last.op = "update" /\ currentState = EXPLORING
  /\ monster.recalculatePathTimer = 0
  /\ monster.lastPlayerPosition = player.position
  /\ RouteLength(monster.position, player.position) = 17
  /\ monster.path = <<>>

\* the frame times of all the specifications
AnyFrameTime == FrameTimes \cup DeltaTimes

\* the update stepped the pursuer
Stepped == monster'.position # monster.position

\* the path as the recompute of this update stored it: the update has popped
\* its first cell if it stepped the pursuer onto it
RecomputedPath == IF Stepped THEN <<monster'.position>> \o monster'.path
                  ELSE monster'.path

\* route leads from the cell `from` to the cell `to` over walkable cells,
\* each next to the one before, without holding `from`
IsRoute(route, from, to) ==
  /\ route # <<>>
  /\ route[Len(route)] = to
  /\ \A k \in 1..Len(route) :
       /\ route[k] # from
       /\ maze.grid[route[k]] # WALL
       /\ distanceTo2(IF k = 1 THEN from ELSE route[k - 1], route[k]) = 1

\* C24: a recompute that reaches the player stores a shortest route: the path
\* does not hold the pursuer's cell, ends at the player's cell, goes over
\* walkable cells that are 4-neighbours of one another, the first of the
\* pursuer's cell, and has as many cells as the breadth-first distance from
\* the pursuer to the player
C24_PathIsShortestRoute ==
  [][\A deltaTime \in AnyFrameTime :
       (Recomputes(deltaTime)
          /\ RouteLength(monster.position, player.position) \in 1..(SearchDepth + 1))
         => /\ IsRoute(RecomputedPath, monster.position, player.position)
            /\ Len(RecomputedPath) = RouteLength(monster.position, player.position)]_vars

\* a recompute has stored a route to the player in a maze whose eight
\* walkable cells form a ring, where two routes lead to every cell
C24_Witness ==
  /\ Running /\ last.op = "update" /\ currentState = EXPLORING
  /\ monster.recalculatePathTimer = 0
  /\ Cardinality({q \in DOMAIN maze.grid : maze.grid[q] # WALL}) = 8
  /\ Len(monster.path) >= 2
  /\ monster.path[Len(monster.path)] = player.position

\* C25: an update in the exploring state recomputes the path if and only if
\* the recompute timer, deltaTime added, exceeds 1000 ms or the player is
\* more than 2 units from the position recorded last.  A recompute sets the
\* timer to 0, records the player's position and stores no path or a route
\* to the player; without a recompute the timer keeps the added deltaTime and
\* the recorded position and the stored path stay as they were
C25_RecomputeOnTimerOrDistance ==
  [][\A deltaTime \in AnyFrameTime :
       (Update(deltaTime) /\ currentState = EXPLORING)
         => IF \/ monster.recalculatePathTimer + deltaTime > 1000
               \/ distanceTo2(monster.lastPlayerPosition, player.position) > 2 * 2
            THEN /\ monster'.recalculatePathTimer = 0
                 /\ monster'.lastPlayerPosition = player.position
                 /\ \/ RecomputedPath = <<>>
                    \/ IsRoute(RecomputedPath, monster.position, player.position)
            ELSE /\ monster'.recalculatePathTimer = monster.recalculatePathTimer + deltaTime
                 /\ monster'.lastPlayerPosition = monster.lastPlayerPosition
                 /\ RecomputedPath = monster.path]_vars

\* an update has kept, without a recompute, a path that leads to the cell
\* the player has left since, one step away
C25_Witness ==
  /\ Running /\ last.op = "update" /\ currentState = EXPLORING
  /\ monster.recalculatePathTimer = 600
  /\ monster.path # <<>>
  /\ monster.path[Len(monster.path)] = monster.lastPlayerPosition
  /\ distanceTo2(monster.lastPlayerPosition, player.position) = 1

\* the move interval of this update: the speed, doubled while the pursuer is
\* less than 2 units from the player
MoveInterval ==
  monster.speed * (IF monster.fearOfLight
                        /\ distanceTo2(monster.position, player.position) < 2 * 2
                   THEN 2 ELSE 1)

\* C26: in one update the pursuer advances at most one cell, and only when
\* the move timer, deltaTime added, has reached speed * speedModifier; on a
\* step the first cell of the stored path becomes the position and leaves the
\* path, and the move timer is set to 0
C26_AtMostOneStepPerUpdate ==
  [][\A deltaTime \in AnyFrameTime :
       (Update(deltaTime) /\ currentState = EXPLORING)
         => /\ distanceTo2(monster.position, monster'.position) <= 1
            /\ Stepped =>
                 /\ monster.lastMoveTime + deltaTime >= MoveInterval
                 /\ monster'.lastMoveTime = 0
                 /\ maze.grid[monster'.position] # WALL
                 /\ IF Recomputes(deltaTime)
                    THEN IsRoute(<<monster'.position>> \o monster'.path,
                                 monster.position, player.position)
                    ELSE monster.path = <<monster'.position>> \o monster'.path
            /\ (~Stepped /\ monster.lastMoveTime + deltaTime < MoveInterval)
                 => monster'.lastMoveTime = monster.lastMoveTime + deltaTime]_vars

\* an update has stepped the pursuer off the cell it was placed on, along a
\* path that goes on from its new cell
C26_Witness ==
  /\ Running /\ last.op = "update" /\ currentState = EXPLORING
  /\ monster.lastMoveTime = 0
  /\ monster.position \notin findMonsterStartPosition(maze)
  /\ monster.path # <<>>
  /\ distanceTo2(monster.position, monster.path[1]) = 1

----------------------------------------------------------------------------
(* Claims about capture and win in one update *)

\* C27: when an update made while exploring finds the pursuer, once advanced,
\* and the player both on the prize cell, the state becomes game-over and not
\* victory: an update leaves victory only if the pursuer is not on the
\* player's cell
C27_CaptureBeforeWin ==
  [][UpdateWhileExploring
       => /\ (monster'.position = player.position
                /\ player.position = maze.prizePosition)
               => currentState' = GAME_OVER
          /\ currentState' = VICTORY => monster'.position # player.position]_vars

\* an update has ended the game with the pursuer and the player on the prize
C27_Witness ==
  /\ Running /\ last.op = "update" /\ currentState = GAME_OVER
  /\ player.position = maze.prizePosition
  /\ monster.position = maze.prizePosition

----------------------------------------------------------------------------
(* Claims about the pursuer without a path *)

\* the player is within the reach of the search from the pursuer's cell
PlayerWithinReach ==
  RouteLength(monster.position, player.position) \in 1..(SearchDepth + 1)

\* C28: an update whose recompute finds no path, or that does not recompute
\* and holds an empty path, leaves the path empty and the pursuer on its
\* cell, however many such updates follow one another; the pursuer moves
\* again at the first move tick of an update whose recompute finds a path
C28_StallsWithoutPath ==
  [][\A deltaTime \in AnyFrameTime :
       (Update(deltaTime) /\ currentState = EXPLORING)
         => LET recomputes == Recomputes(deltaTime)
                within == PlayerWithinReach
            IN  /\ (IF recomputes THEN ~within ELSE monster.path = <<>>)
                     => /\ monster'.position = monster.position
                        /\ monster'.path = <<>>
                /\ (recomputes /\ within
                      /\ monster.lastMoveTime + deltaTime >= MoveInterval)
                     => Stepped]_vars

\* the pursuer, out of reach of the player, has passed a move tick in an
\* update that did not recompute, and stands on the cell it was placed on
\* with an empty path
C28_Witness ==
  /\ Running /\ last.op = "update" /\ currentState = EXPLORING
  /\ monster.recalculatePathTimer = 600
  /\ monster.lastMoveTime = 0
  /\ monster.path = <<>>
  /\ monster.position \in findMonsterStartPosition(maze)
  /\ ~PlayerWithinReach

\* C29: at a move tick of an update that does not recompute, a stored path
\* whose first cell cannot be walked on any more is dropped whole and the
\* pursuer keeps its cell
C29_StalePathIsDiscarded ==
  [][\A deltaTime \in AnyFrameTime :
       (Update(deltaTime) /\ currentState = EXPLORING
          /\ ~Recomputes(deltaTime)
          /\ monster.lastMoveTime + deltaTime >= MoveInterval
          /\ monster.path # <<>>
          /\ maze.grid[monster.path[1]] = WALL)
         => /\ monster'.position = monster.position
            /\ monster'.path = <<>>
            /\ monster'.lastMoveTime = 0]_vars

\* a move tick has left the pursuer without a path although a route to the
\* player exists: a cell was closed, the update before had stored a route,
\* and this update, which did not recompute, found its first cell closed
C29_Witness ==
  /\ Running /\ last.op = "update" /\ currentState = EXPLORING
  /\ monster.recalculatePathTimer = 600
  /\ monster.lastMoveTime = 0
  /\ monster.path = <<>>
  /\ PlayerWithinReach
  /\ \E q \in DOMAIN maze.grid :
       maze.grid[q] = WALL /\ distanceTo2(monster.position, q) = 1
         /\ q.x \in 1..(maze.width - 2) /\ q.y \in 1..(maze.height - 2)

----------------------------------------------------------------------------
(* Claims about the choice of the prize cell *)

\* C30: the cell the constructor makes the prize is, when it is chosen, a
\* floor cell other than start, and no floor cell of the grid is farther
\* from start in a straight line
C30_PrizeIsFarthestFloorCell ==
  [][(PlaceStartAndPrize /\ pc' = "spawn")
       => /\ maze.grid[maze'.prizePosition] = FLOOR
          /\ maze'.prizePosition # maze'.startPosition
          /\ \A q \in DOMAIN maze.grid :
               maze.grid[q] = FLOOR
                 => distanceTo2(maze'.startPosition, q)
                      <= distanceTo2(maze'.startPosition, maze'.prizePosition)]_vars

\* the constructor has returned the corridor maze of WideWidth x SimDim: the
\* prize is the far bottom corner, and the far top corner, two cells above
\* it, is a floor cell nearer to start
C30_Witness ==
  /\ pc = "spawn"
  /\ maze.width = WideWidth /\ maze.height = SimDim
  /\ \A q \in DOMAIN maze.grid :
       maze.grid[q] # WALL <=> CorridorFloor(WideWidth, SimDim, q)
  /\ maze.prizePosition = Vector2(WideWidth - 2, SimDim - 2)
  /\ maze.grid[Vector2(WideWidth - 2, 1)] = FLOOR

----------------------------------------------------------------------------
(* Claims about the carving *)

\* the cells of the grid that are not walls
OpenCells == {p \in DOMAIN maze.grid : maze.grid[p] # WALL}

\* the pairs of open cells that are 4-neighbours, each pair once
OpenPairs ==
  {pq \in OpenCells \X OpenCells :
     distanceTo2(pq[1], pq[2]) = 1 /\ CellIndex(maze, pq[1]) < CellIndex(maze, pq[2])}

\* the cells with odd coordinates strictly inside the border
LatticeCells ==
  {p \in DOMAIN maze.grid :
     /\ Odd(p.x) /\ Odd(p.y)
     /\ p.x < maze.width - 1 /\ p.y < maze.height - 1}

\* the open cells form a tree: all are reached from (1,1), and the pairs of
\* neighbours are one fewer than the cells
OpenCellsFormTree ==
  /\ ReachableFrom(maze, Vector2(1, 1)) = OpenCells
  /\ Cardinality(OpenPairs) = Cardinality(OpenCells) - 1

\* C31: the carving loop ends, whatever neighbours it draws; it ends with
\* its stack empty, and then every cell with odd coordinates inside the
\* border is floor and the open cells form a spanning tree: one path between
\* any two of them, no cycle
C31_CarveEndsWithSpanningTree ==
  /\ <>(pc # "carve")
  /\ [][(CarveStep /\ pc' # "carve")
          => /\ gen'.stack = <<>>
             /\ \A p \in LatticeCells : maze'.grid[p] = FLOOR
             /\ OpenCells = {p \in DOMAIN maze'.grid : maze'.grid[p] # WALL}
             /\ OpenCellsFormTree]_vars

\* the carving of a 7 x 7 grid has just ended: the 9 lattice cells and the 8
\* cells opened between them, no connection pass run yet
C31_Witness ==
  /\ pc = "connect" /\ gen.i = 0 /\ gen.stack = <<>>
  /\ maze.width = 7 /\ maze.height = 7
  /\ Cardinality(LatticeCells) = 9
  /\ Cardinality(OpenCells) = 17
  /\ OpenCellsFormTree

----------------------------------------------------------------------------
(* Claims about reset and pause *)

\* the cell p satisfies the placement contract: a candidate; one that passes
\* the distance filter if any candidate does; a safe one if any candidate
\* that passes the filter is safe
MeetsPlacementContract(p) ==
  /\ p \in Candidates
  /\ (\E q \in Candidates : FarFromStartAndPrize(q)) => FarFromStartAndPrize(p)
  /\ (\E q \in Candidates : FarFromStartAndPrize(q) /\ ~CorridorTowardsPrize(q))
       => ~CorridorTowardsPrize(p)

\* C32: reset puts the pursuer on a cell of the placement contract with an
\* empty path and both timers at 0; from then on an update that does not
\* recompute the path leaves the pursuer, as long as its path is empty, on
\* its cell with an empty path: the pursuer moves only once a recompute has
\* stored a path
C32_ResetLeavesPursuerWithoutPath ==
  [][/\ Reset => /\ MeetsPlacementContract(monster'.position)
                 /\ monster'.path = <<>>
                 /\ monster'.lastMoveTime = 0
                 /\ monster'.recalculatePathTimer = 0
     /\ \A deltaTime \in AnyFrameTime :
          (Update(deltaTime) /\ currentState = EXPLORING
             /\ monster.path = <<>> /\ ~Recomputes(deltaTime))
            => /\ monster'.position = monster.position
               /\ monster'.path = <<>>]_vars

\* the first update after a reset, 600 ms long, has not recomputed the path:
\* the player is where the pursuer recorded it last, the pursuer has a route
\* to the player within reach and has not been given it yet
C32_Witness ==
  /\ Running /\ last.op = "update" /\ currentState = EXPLORING
  /\ monster.recalculatePathTimer = 600
  /\ monster.lastMoveTime = 600
  /\ monster.lastPlayerPosition = player.position
  /\ monster.path = <<>>
  /\ PlayerWithinReach

\* C33: togglePause switches exploring to paused and paused to exploring,
\* changes nothing once the game is over or won, and a second togglePause
\* right after it leads back to the state the first one left; nothing but
\* the state is touched
C33_TogglePauseSwitchesAndRestores ==
  [][TogglePause =>
       /\ currentState = EXPLORING => currentState' = PAUSED
       /\ currentState = PAUSED => currentState' = EXPLORING
       /\ Ended => currentState' = currentState
       /\ togglePause(currentState') = currentState
       /\ UNCHANGED <<maze, player, monster, godMode>>]_vars

\* togglePause has paused a game in which the pursuer has already stepped
C33_Witness ==
  /\ Running /\ last.op = "togglePause" /\ currentState = PAUSED
  /\ monster.path # <<>>

\* C34: once the simulation is constructed, whatever movePlayer, reset,
\* togglePause and update calls have been made, the player stands on a cell
\* inside the grid that is not a wall
C34_PlayerOnWalkableCell ==
  Running => /\ isValidPosition(maze, player.position)
             /\ maze.grid[player.position] # WALL

\* the player has walked away from start, the game is paused and a further
\* movePlayer, into a wall or off the grid, has been refused
C34_Witness ==
  /\ Running /\ last.op = "movePlayer" /\ last.ret = FALSE
  /\ currentState = PAUSED
  /\ player.position # maze.startPosition

----------------------------------------------------------------------------
(* Claims about the pursuer's position *)

\* C35: an update leaves the pursuer on its cell or on a walkable cell next
\* to it along an axis; after every call a stored path that is not empty
\* starts on a cell next to the pursuer's along an axis; and a call that
\* takes the pursuer farther than one cell is a reset
C35_PursuerStepsToAdjacentCell ==
  [][/\ \A deltaTime \in AnyFrameTime :
          Update(deltaTime)
            => \/ monster'.position = monster.position
               \/ /\ distanceTo2(monster.position, monster'.position) = 1
                  /\ isWalkable(maze, monster'.position)
     /\ (pc' = "run" /\ monster'.path # <<>>)
          => distanceTo2(monster'.position, monster'.path[1]) = 1
     /\ (pc = "run" /\ distanceTo2(monster.position, monster'.position) > 1)
          => Reset]_vars

\* an update has stepped the pursuer off the cells it can be placed on and
\* at least two cells of its path remain
C35_Witness ==
  /\ Running /\ last.op = "update"
  /\ monster.lastMoveTime = 0
  /\ monster.position \notin findMonsterStartPosition(maze)
  /\ Len(monster.path) >= 2

----------------------------------------------------------------------------
(* Claims about the states of the game *)

\* C36: once the game is over or won, update, togglePause, movePlayer,
\* toggleGodMode and the aim commands leave the state as it is; the only
\* call that changes it is reset, and reset leaves exploring.  So victory
\* is not followed by game-over, nor game-over by victory, without a reset
\* in between
C36_EndedStateLeftOnlyByReset ==
  [][Ended => /\ currentState' # currentState => Reset
              /\ Reset => currentState' = EXPLORING]_vars

\* the game is won, god mode has been switched on and the flashlight turned
\* since, and the pursuer has a path to the player it no longer follows
C36_Witness ==
  /\ Running /\ currentState = VICTORY /\ godMode
  /\ last.op = "rotateFlashlight"
  /\ monster.path # <<>>

-----------------------------------------------------------------------\* C38: movePlayer does not look at the state of the game: while the game
\* is paused, over or won a movePlayer towards a walkable cell returns true,
\* moves the player and leaves a fresh trail entry, the state and the pursuer
\* staying as they are; and an update in these states leaves the pursuer as
\* it is
C38_MovePlayerInAnyState ==
  [][/\ \A direction \in MoveDirections :
          (/\ currentState \in {PAUSED, GAME_OVER, VICTORY}
           /\ isWalkable(maze, add(player.position, direction))
           /\ MovePlayer(direction))
            => /\ last'.ret = TRUE
               /\ player'.position = add(player.position, direction)
               /\ FreshFootprintAt(player', player'.position)
               /\ UNCHANGED <<monster, currentState>>
     /\ \A deltaTime \in DeltaTimes :
          (currentState \in {PAUSED, GAME_OVER, VICTORY} /\ Update(deltaTime))
            => UNCHANGED <<monster, currentState>>]_vars

\* after the capture the player has walked off the cell the pursuer caught
\* it on
C38_Witness ==
  /\ Running /\ currentState = GAME_OVER
  /\ last.op = "movePlayer" /\ last.ret = TRUE
  /\ monster.position # player.position

\* C39: every change of state that update, togglePause and reset make on
\* the constructed simulation is one that canTransitionTo, asked in the state
\* that is left, allows
C39_StateChangesFollowTable ==
  [][(pc = "run" /\ currentState' # currentState)
       => canTransitionTo(currentState, currentState')]_vars

\* an update has ended the game: the pursuer has stepped onto the player
C39_Witness ==
  /\ Running /\ last.op = "update" /\ currentState = GAME_OVER
  /\ monster.position = player.position
  /\ monster.lastMoveTime = 0

-----
(* Claims about walls *)

\* C37: with god mode off getVisibleCells returns no wall cell: the
\* flashlight and the ambient light give every wall cell the intensity 0
\* (the line of sight samples the target cell itself) and every entry of the
\* trail lies on a walkable cell
C37_NoWallCellVisible ==
  Running
  => /\ \A p \in AllPositions(maze) :
          maze.grid[p] = WALL
            => /\ getFlashlightIntensity(player, maze, p) = 0
               /\ getAmbientLightIntensity(player, maze, p) = 0
     /\ \A p \in DOMAIN player.footprints : isWalkable(maze, p)
     /\ ~godMode
          => \A v \in getVisibleCells(maze, player, godMode) :
               maze.grid[v.cell] # WALL

\* with god mode off the player, away from start, has aimed the flashlight
\* straight at a wall one cell away: the wall is inside the cone and the
\* ambient range and is not among the returned cells
C37_Witness ==
  /\ Running /\ ~godMode /\ last.op = "setFlashlightDirection"
  /\ player.position # maze.startPosition
  /\ \E p \in AllPositions(maze) :
       /\ maze.grid[p] = WALL
       /\ distanceTo2(player.position, p) = 1
       /\ angleTo(player, p) = 0
       /\ \A v \in getVisibleCells(maze, player, godMode) : v.cell # p

\* the cell p lies on the outer border of the grid
OnBorder(p) ==
  \/ p.x = 0 \/ p.x = maze.width - 1
  \/ p.y = 0 \/ p.y = maze.height - 1

\* C40: at every point of the construction and after it every cell on the
\* outer border of the grid is a wall, and so every 4-neighbour of a
\* walkable cell lies inside the grid
C40_BorderIsWall ==
  /\ \A p \in AllPositions(maze) : OnBorder(p) => maze.grid[p] = WALL
  /\ \A p \in AllPositions(maze) :
       isWalkable(maze, p)
         => \A k \in 1..4 : isValidPosition(maze, add(p, directions[k]))

\* a maze is constructed in which the cell inside the corner opposite start
\* is open, and the connection passes have opened a cell off the lattice
C40_Witness ==
  /\ pc = "spawn"
  /\ isWalkable(maze, Vector2(maze.width - 2, maze.height - 2))
  /\ \E p \in AllPositions(maze) :
       p.x % 2 = 0 /\ p.y % 2 = 0 /\ isWalkable(maze, p)

====
